---- MODULE Spec2Model ----
(***************************************************************************)
(* Model of the rdp.proxy module of bettercap                              *)
(* (modules/rdp_proxy/rdp_proxy_linux_amd64.go).                           *)
(*                                                                         *)
(* Two threads of control exist: the control thread, which runs the        *)
(* "rdp.proxy on" / "rdp.proxy off" handlers (Start, Stop) one at a time,  *)
(* and one worker goroutine per successful Start, which runs the NFQUEUE   *)
(* receive loop, the per-packet callback handleRdpConnection and, after    *)
(* the loop, the deferred destroyQueue.  The kernel side (iptables chain   *)
(* BCAPRDP, queue handles, agent processes) is modelled as plain state     *)
(* that the module's commands act on.                                      *)
(***************************************************************************)
EXTENDS Integers, Sequences, FiniteSets, TLC

\* ---- bounds of the model ------------------------------------------------
MaxPackets == 2          \* packets delivered to the callback over a behaviour
MaxQueues  == 2          \* queue handles created (Starts that reach line 170)

\* ---- program constants --------------------------------------------------
DefaultPort      == 3389     \* NewRdpProxy: port
DefaultStartPort == 40000    \* NewRdpProxy: startPort

\* ---- input domains ------------------------------------------------------
IP4(d)  == <<10, 0, 0, d>>                                   \* 4-byte net.IP
IP16(d) == <<0, 0, 0, 0, 0, 0, 0, 0, 0, 0, 255, 255, 10, 0, 0, d>>  \* 16-byte form

\* what ParseTargets may resolve rdp.proxy.targets to
TargetChoices == { <<IP16(5)>>, <<IP4(9), IP16(5)>> }
\* the packets the queue may deliver: destination and destination port, or a
\* payload that does not decode to IPv4/TCP
Packets == { [parsed |-> TRUE,  dst |-> IP4(5), dport |-> 3389],
             [parsed |-> TRUE,  dst |-> IP4(9), dport |-> 3389],
             [parsed |-> TRUE,  dst |-> IP4(9), dport |-> 443],
             [parsed |-> FALSE, dst |-> <<>>,   dport |-> 0] }
\* values the user may give to rdp.proxy.port and rdp.proxy.start
PortParams  == { 3389 }
StartParams == { 40000, 40001 }

\* the callback's record of one packet: what it parsed, the branch it took and
\* what it did (spawn calls, processes started, iptables commands issued, rules
\* those commands put into the chain, sessions recorded, verdicts issued)
NoPacket == [dst |-> <<>>, dport |-> 0, branch |-> "none", isT |-> FALSE,
             target |-> "", cursor0 |-> 0, proc |-> FALSE,
             spawns |-> 0, agents |-> {}, cmds |-> <<>>, ins |-> <<>>,
             recs |-> 0, verdicts |-> <<>>]

VARIABLES
    started,      \* SessionModule.Started, what Running() reports
    queue,        \* mod.queue: 0 is nil, otherwise the id of a queue handle
    port,         \* mod.port
    startPort,    \* mod.startPort, the port cursor
    active,       \* mod.active: target string -> exec.Cmd
    addresses,    \* mod.addresses
    params,       \* the session's parameter store (only rdp.proxy.start is kept)
    fw,           \* the nat table: chain BCAPRDP, its PREROUTING hook, its rules
    procs,        \* agent processes spawned so far
    qlive,        \* queue handles created and not yet destroyed
    stopReq,      \* queue handles on which StopLoop was called
    nextQ,        \* number of queue handles created so far
    pc,           \* position of the control thread
    ret,          \* last command completed on the control thread and its result
    fwq,          \* configureFirewall: the rules still to be executed
    killTodo,     \* Stop: entries of mod.active the range loop has yet to visit
    wpc,          \* position of each worker goroutine (indexed by queue handle)
    loopOn,       \* the queue handle each worker runs Loop on
    cur,          \* the packet the callback is handling or has handled last
    npkts,        \* packets delivered so far
    crashed       \* the process died on a Go panic or runtime fatal error

vars == <<started, queue, port, startPort, active, addresses, params, fw, procs,
          qlive, stopReq, nextQ, pc, ret, fwq, killTodo, wpc, loopOn, cur,
          npkts, crashed>>

modVars  == <<started, queue, port, startPort, active, addresses>>
ctlVars  == <<pc, ret, fwq, killTodo>>
wrkVars  == <<wpc, loopOn, cur, npkts>>
kernVars == <<fw, procs, qlive, stopReq, nextQ>>

Workers == 1..MaxQueues

\* ---- text conversions ---------------------------------------------------
\* net.IP.String(): dotted quad for a 4-byte address and for a 16-byte
\* IPv4-mapped one.
Dotted(b) == ToString(b[1]) \o "." \o ToString(b[2]) \o "." \o
             ToString(b[3]) \o "." \o ToString(b[4])

IPString(ip) ==
    IF Len(ip) = 4 THEN Dotted(ip)
    ELSE IF Len(ip) = 16 /\ SubSeq(ip, 1, 12) = SubSeq(IP16(0), 1, 12)
         THEN Dotted(SubSeq(ip, 13, 16))
    ELSE "?"

\* fmt.Sprintf("%v:%v", dst, dport)
TargetKey(dst, dport) == IPString(dst) \o ":" \o ToString(dport)

\* ---- Target Membership Filter -------------------------------------------
\* the range loop of isTarget over mod.addresses, from index i on
\* (a loop that gives up after the first address)
isTargetFirstOnly(addrs, i, ip) ==
    i <= Len(addrs) /\ IPString(addrs[i]) = ip

RECURSIVE isTargetFrom(_, _, _)
isTargetFrom(addrs, i, ip) ==
    IF i > Len(addrs) THEN FALSE
    ELSE IF IPString(addrs[i]) = ip THEN TRUE
    ELSE isTargetFrom(addrs, i + 1, ip)

isTarget(ip) == isTargetFrom(addresses, 1, ip)

\* ---- the nat table as iptables sees it ----------------------------------
\* fw = [chain: BCAPRDP exists, hook: PREROUTING jumps to it, rules: its rules]
Rule(j, d, dport, to) == [j |-> j, d |-> d, dport |-> dport, to |-> to]

\* One iptables invocation (core.Exec("iptables", ...)): `e` is whether the
\* environment lets the command run at all; the command also fails when the
\* table is not in the state it needs.  Result: [err, fw].
IptResult(fails, f, g) == IF fails THEN [err |-> TRUE, fw |-> f]
                          ELSE [err |-> FALSE, fw |-> g]

Iptables(cmd, f, e) ==
    CASE cmd.op = "-N" ->
           IptResult(~e \/ f.chain, f, [f EXCEPT !.chain = TRUE, !.rules = <<>>])
      [] cmd.op = "-I PREROUTING" ->
           IptResult(~e \/ ~f.chain, f, [f EXCEPT !.hook = TRUE])
      [] cmd.op = "-A" ->
           IptResult(~e \/ ~f.chain, f, [f EXCEPT !.rules = Append(@, cmd.rule)])
      [] cmd.op = "-I 1" ->
           IptResult(~e \/ ~f.chain, f, [f EXCEPT !.rules = <<cmd.rule>> \o @])
      [] cmd.op = "-D PREROUTING" ->
           IptResult(~e \/ ~f.hook, f, [f EXCEPT !.hook = FALSE])
      [] cmd.op = "-F" ->
           IptResult(~e \/ ~f.chain, f, [f EXCEPT !.rules = <<>>])
      [] cmd.op = "-X" ->
           IptResult(~e \/ ~f.chain \/ f.hook \/ f.rules /= <<>>, f,
                     [f EXCEPT !.chain = FALSE])

NoRule == Rule("", "", "", "")
Cmd(op, rule) == [op |-> op, rule |-> rule]

\* ---- Firewall Rule Manager ----------------------------------------------
\* (a redirect appended to the chain instead of inserted at its head)
doProxyAppended(addr, toPort) ==
    Cmd("-A", Rule("REDIRECT", addr, ToString(port), toPort))

\* doProxy: -I BCAPRDP 1 -d addr -p tcp --dport <mod.port> -j REDIRECT --to-ports port
doProxy(addr, toPort) ==
    Cmd("-I 1", Rule("REDIRECT", addr, ToString(port), toPort))

\* (an exemption for the service port instead of the packet's port)
doReturnServicePort(dst, dport) ==
    Cmd("-I 1", Rule("RETURN", dst, ToString(port), ""))

\* doReturn: -I BCAPRDP 1 -p tcp -d dst --dport <dport> -j RETURN
doReturn(dst, dport) ==
    Cmd("-I 1", Rule("RETURN", dst, ToString(dport), ""))

\* configureFirewall: the list of rules it builds for enable / disable
configureFirewall(enable) ==
    IF enable
    THEN << Cmd("-N", NoRule),
            Cmd("-I PREROUTING", NoRule),
            Cmd("-A", Rule("NFQUEUE", "", ToString(port), "")) >>
    ELSE << Cmd("-D PREROUTING", NoRule),
            Cmd("-F", NoRule),
            Cmd("-X", NoRule) >>

\* ---- initial state: after NewRdpProxy ------------------------------------
NoRet == [op |-> "none", res |-> "none"]

Init ==
    /\ started = FALSE
    /\ queue = 0
    /\ port = DefaultPort
    /\ startPort = DefaultStartPort
    /\ active = <<>>
    /\ addresses = <<>>
    /\ params = [start |-> DefaultStartPort]
    /\ fw = [chain |-> FALSE, hook |-> FALSE, rules |-> <<>>]
    /\ procs = {}
    /\ qlive = {}
    /\ stopReq = {}
    /\ nextQ = 0
    /\ pc = "idle"
    /\ ret = NoRet
    /\ fwq = <<>>
    /\ killTodo = {}
    /\ wpc = [w \in Workers |-> "none"]
    /\ loopOn = [w \in Workers |-> 0]
    /\ cur = NoPacket
    /\ npkts = 0
    /\ crashed = FALSE

\* ---- session framework (SessionModule) ----------------------------------
Running == started

\* the user sets rdp.proxy.start in the parameter store, before the module is
\* started for the first time
SetStartParam(v) ==
    /\ ~crashed /\ pc = "idle" /\ ret = NoRet
    /\ v /= params.start
    /\ params' = [params EXCEPT !.start = v]
    /\ UNCHANGED <<modVars, ctlVars, wrkVars, kernVars, crashed>>

\* ---- Lifecycle Controller ------------------------------------------------
\* destroyQueue, on whichever goroutine calls it
destroyQueue ==
    IF queue = 0
    THEN UNCHANGED <<queue, qlive>>
    ELSE /\ qlive' = qlive \ {queue}       \* DestroyQueue(); Close()
         /\ queue' = 0

\* (a Start that does not look at Running())
AlreadyStartedUnchecked == FALSE

\* Start, line 242: the Running() guard
AlreadyStarted == Running

StartRejected ==
    /\ AlreadyStarted
    /\ ret' = [op |-> "Start", res |-> "ErrAlreadyStarted"]
    /\ UNCHANGED <<pc, modVars, fwq, killTodo, wrkVars, kernVars, params, crashed>>

StartProceeds ==
    /\ ~AlreadyStarted
    /\ nextQ < MaxQueues
    /\ pc' = "configure"
    /\ ret' = NoRet
    /\ UNCHANGED <<modVars, fwq, killTodo, wrkVars, kernVars, params, crashed>>

Start ==
    /\ ~crashed /\ pc = "idle"
    /\ (StartRejected \/ StartProceeds)

\* Configure, line 149
Configure_destroyQueue ==
    /\ ~crashed /\ pc = "configure"
    /\ destroyQueue
    /\ pc' = "params"
    /\ UNCHANGED <<started, port, startPort, active, addresses, params, fw, procs,
                   stopReq, nextQ, ret, fwq, killTodo, wrkVars, crashed>>

\* Configure, lines 152-164: the parameters are read, the targets resolved and
\* the agent command looked up; the first failure returns its error.
ConfigErrors == {"param", "targets", "lookpath"}

Configure_params ==
    /\ ~crashed /\ pc = "params"
    /\ \E res \in ConfigErrors \cup {"ok"}, p \in PortParams, t \in TargetChoices :
         IF res = "ok"
         THEN /\ port' = p
              /\ addresses' = t
              /\ pc' = "queue"
              /\ ret' = ret
         ELSE /\ UNCHANGED <<port, addresses>>
              /\ pc' = "idle"
              /\ ret' = [op |-> "Start", res |-> res]
    /\ UNCHANGED <<started, queue, startPort, active, params, kernVars, fwq,
                   killTodo, wrkVars, crashed>>

\* Configure, lines 170-182: the handle is allocated and stored in mod.queue,
\* then SetCallback, Init, Unbind, Bind, CreateQueue, SetMode; the first
\* failure returns its error with mod.queue left as it is.
Configure_queue ==
    /\ ~crashed /\ pc = "queue"
    /\ nextQ' = nextQ + 1
    /\ queue' = nextQ + 1
    /\ qlive' = qlive \cup {nextQ + 1}
    /\ \E ok \in BOOLEAN :
         IF ok
         THEN /\ pc' = "fw_enable"
              /\ fwq' = configureFirewall(TRUE)
              /\ ret' = ret
         ELSE /\ pc' = "idle"
              /\ fwq' = fwq
              /\ ret' = [op |-> "Start", res |-> "queue"]
    /\ UNCHANGED <<started, port, startPort, active, addresses, params, fw, procs,
                   stopReq, killTodo, wrkVars, crashed>>

\* configureFirewall, lines 136-140: one pass of the loop over the rules.  The
\* first failing command ends the loop.  Start returns the error (line 183);
\* Stop discards it (line 262) and goes on to the agents.
configureFirewall_step ==
    /\ ~crashed /\ pc \in {"fw_enable", "fw_disable"} /\ fwq /= <<>>
    /\ \E e \in BOOLEAN :
         LET r == Iptables(Head(fwq), fw, e) IN
         /\ fw' = r.fw
         /\ IF r.err
            THEN /\ fwq' = <<>>
                 /\ IF pc = "fw_enable"
                    THEN pc' = "idle" /\ ret' = [op |-> "Start", res |-> "firewall"]
                    ELSE pc' = "kill_begin" /\ ret' = ret
            ELSE /\ fwq' = Tail(fwq)
                 /\ ret' = ret
                 /\ pc' = IF Tail(fwq) /= <<>> THEN pc
                          ELSE IF pc = "fw_enable" THEN "set_running"
                          ELSE "kill_begin"
    /\ UNCHANGED <<modVars, params, procs, qlive, stopReq, nextQ, killTodo,
                   wrkVars, crashed>>

\* Start, line 248: SetRunning(true, worker)
Start_SetRunning ==
    /\ ~crashed /\ pc = "set_running"
    /\ started' = TRUE
    /\ wpc' = [wpc EXCEPT ![nextQ] = "start"]
    /\ pc' = "idle"
    /\ ret' = [op |-> "Start", res |-> "ok"]
    /\ UNCHANGED <<queue, port, startPort, active, addresses, params, kernVars,
                   fwq, killTodo, loopOn, cur, npkts, crashed>>

\* Stop, line 260: SetRunning(false, ...) refuses a module that is not running
StopRejected ==
    /\ ~Running
    /\ ret' = [op |-> "Stop", res |-> "ErrAlreadyStopped"]
    /\ UNCHANGED <<pc, modVars, fwq, killTodo, wrkVars, kernVars, params, crashed>>

StopProceeds ==
    /\ Running
    /\ started' = FALSE
    /\ pc' = "stop_loop"
    /\ ret' = NoRet
    /\ UNCHANGED <<queue, port, startPort, active, addresses, fwq, killTodo,
                   wrkVars, kernVars, params, crashed>>

Stop ==
    /\ ~crashed /\ pc = "idle"
    /\ (StopRejected \/ StopProceeds)

\* Stop, lines 261-262: mod.queue.StopLoop() (a nil mod.queue is a nil
\* dereference), then configureFirewall(false)
Stop_StopLoop ==
    /\ ~crashed /\ pc = "stop_loop"
    /\ IF queue = 0
       THEN /\ crashed' = TRUE
            /\ UNCHANGED <<stopReq, fwq, pc>>
       ELSE /\ stopReq' = stopReq \cup {queue}
            /\ fwq' = configureFirewall(FALSE)
            /\ pc' = "fw_disable"
            /\ crashed' = crashed
    /\ UNCHANGED <<modVars, params, fw, procs, qlive, nextQ, ret, killTodo, wrkVars>>

\* Stop, line 263: the range over mod.active begins
Stop_range ==
    /\ ~crashed /\ pc = "kill_begin"
    /\ killTodo' = DOMAIN active
    /\ pc' = "kill"
    /\ UNCHANGED <<modVars, params, kernVars, ret, fwq, wrkVars, crashed>>

\* Stop, line 264: cmd.Process.Kill() for one entry; Process is nil when the
\* command never started, and Kill on it is a nil dereference
Kill(ps, cmd) == { IF p.args = cmd.args THEN [p EXCEPT !.alive = FALSE] ELSE p : p \in ps }

Stop_kill ==
    /\ ~crashed /\ pc = "kill" /\ killTodo /= {}
    /\ \E k \in killTodo :
         /\ killTodo' = killTodo \ {k}
         /\ IF active[k].proc
            THEN procs' = Kill(procs, active[k]) /\ crashed' = crashed
            ELSE procs' = procs /\ crashed' = TRUE
    /\ UNCHANGED <<modVars, params, fw, qlive, stopReq, nextQ, pc, ret, fwq, wrkVars>>

Stop_rangeDone ==
    /\ ~crashed /\ pc = "kill" /\ killTodo = {}
    /\ pc' = "wait_done"
    /\ UNCHANGED <<modVars, params, kernVars, ret, fwq, killTodo, wrkVars, crashed>>

\* Stop, line 267 and Start, line 255: mod.done is unbuffered, so the worker's
\* send and Stop's receive happen together; Stop returns, the worker goes on to
\* its deferred destroyQueue.
Done_handshake(w) ==
    /\ ~crashed /\ pc = "wait_done" /\ wpc[w] = "send_done"
    /\ pc' = "idle"
    /\ ret' = [op |-> "Stop", res |-> "ok"]
    /\ wpc' = [wpc EXCEPT ![w] = "defer"]
    /\ UNCHANGED <<modVars, params, kernVars, fwq, killTodo, loopOn, cur, npkts, crashed>>

\* ---- the worker goroutine (Start, lines 248-256) -------------------------
\* line 253: mod.queue.Loop() reads mod.queue when the goroutine gets to run
Worker_enterLoop(w) ==
    /\ ~crashed /\ wpc[w] = "start"
    /\ IF queue = 0
       THEN crashed' = TRUE /\ UNCHANGED <<wpc, loopOn>>
       ELSE /\ loopOn' = [loopOn EXCEPT ![w] = queue]
            /\ wpc' = [wpc EXCEPT ![w] = "loop"]
            /\ crashed' = crashed
    /\ UNCHANGED <<modVars, params, kernVars, ctlVars, cur, npkts>>

\* Loop returns once StopLoop was called on its handle, or when the handle
\* was destroyed under it
Worker_loopReturns(w) ==
    /\ ~crashed /\ wpc[w] = "loop"
    /\ loopOn[w] \in stopReq \/ loopOn[w] \notin qlive
    /\ wpc' = [wpc EXCEPT ![w] = "send_done"]
    /\ cur' = NoPacket
    /\ UNCHANGED <<modVars, params, kernVars, ctlVars, loopOn, npkts, crashed>>

\* receiving on a handle that was destroyed and closed may also bring the
\* process down
Worker_loopOnDestroyed(w) ==
    /\ ~crashed /\ wpc[w] = "loop"
    /\ loopOn[w] \notin qlive
    /\ crashed' = TRUE
    /\ UNCHANGED <<modVars, params, kernVars, ctlVars, wrkVars>>

\* line 251: the deferred destroyQueue, after the send on mod.done
Worker_deferred(w) ==
    /\ ~crashed /\ wpc[w] = "defer"
    /\ destroyQueue
    /\ wpc' = [wpc EXCEPT ![w] = "finished"]
    /\ UNCHANGED <<started, port, startPort, active, addresses, params, fw, procs,
                   stopReq, nextQ, ctlVars, loopOn, cur, npkts, crashed>>

\* ---- Connection Decision Engine: handleRdpConnection --------------------
\* (a lookup that never finds the session)
hasSessionNever(target) == FALSE

\* line 202: _, ok := mod.active[target]
hasSession(target) == target \in DOMAIN active

\* lines 204-209: the agent's arguments
agentArgs(target) == <<"-l", ToString(startPort), target>>

\* (an already-intercepted endpoint's packet let through)
VerdictAcceptKnown(branch) == IF branch = "existing" THEN "ACCEPT" ELSE "DROP"

\* line 231: the verdict
Verdict(branch) == "DROP"

\* lines 192-202: the packet is decoded (a packet with no network or transport
\* layer makes lines 193-194 call a method on nil), its destination is
\* classified and, for a target, the session is looked up
handle_classify(w, pkt) ==
    /\ ~crashed /\ wpc[w] = "loop"
    /\ loopOn[w] \in qlive /\ loopOn[w] \notin stopReq
    /\ npkts < MaxPackets
    /\ npkts' = npkts + 1
    /\ IF ~pkt.parsed
       THEN /\ crashed' = TRUE
            /\ cur' = [NoPacket EXCEPT !.branch = "panic"]
            /\ wpc' = wpc
       ELSE LET isT    == isTarget(IPString(pkt.dst))
                target == TargetKey(pkt.dst, pkt.dport)
                branch == IF ~isT THEN "nontarget"
                          ELSE IF hasSession(target) THEN "existing" ELSE "new"
            IN /\ cur' = [NoPacket EXCEPT !.dst = pkt.dst, !.dport = pkt.dport,
                                          !.isT = isT, !.target = target,
                                          !.branch = branch, !.cursor0 = startPort]
               /\ wpc' = [wpc EXCEPT ![w] = CASE branch = "new" -> "spawn"
                                              [] branch = "existing" -> "verdict"
                                              [] branch = "nontarget" -> "exempt"]
               /\ crashed' = crashed
    /\ UNCHANGED <<modVars, params, kernVars, ctlVars, loopOn>>

\* lines 212-216: exec.Command(...).Start(); its error is dropped
handle_spawn(w) ==
    /\ ~crashed /\ wpc[w] = "spawn"
    /\ \E ok \in BOOLEAN :
         LET p == [args |-> agentArgs(cur.target), alive |-> TRUE] IN
         /\ procs' = IF ok THEN procs \cup {p} ELSE procs
         /\ cur' = [cur EXCEPT !.spawns = @ + 1, !.proc = ok,
                               !.agents = IF ok THEN @ \cup {p.args} ELSE @]
    /\ wpc' = [wpc EXCEPT ![w] = "redirect"]
    /\ UNCHANGED <<modVars, params, fw, qlive, stopReq, nextQ, ctlVars, loopOn,
                   npkts, crashed>>

\* one per-connection iptables command of the callback; its error is dropped
handle_iptables(cmd, e) ==
    LET r == Iptables(cmd, fw, e) IN
    /\ fw' = r.fw
    /\ cur' = [cur EXCEPT !.cmds = Append(@, cmd.rule),
                          !.ins = IF r.err THEN @ ELSE Append(@, cmd.rule)]

\* line 219
handle_doProxy(w) ==
    /\ ~crashed /\ wpc[w] = "redirect"
    /\ \E e \in BOOLEAN :
         handle_iptables(doProxy(IPString(cur.dst), ToString(startPort)), e)
    /\ wpc' = [wpc EXCEPT ![w] = "record"]
    /\ UNCHANGED <<modVars, params, procs, qlive, stopReq, nextQ, ctlVars, loopOn,
                   npkts, crashed>>

\* lines 220-221: the session is recorded and the cursor advanced.  When Stop
\* is ranging over mod.active at that moment, the new entry may or may not be
\* visited by the range, or the runtime detects the concurrent map write and
\* ends the process.
handle_record(w) ==
    /\ ~crashed /\ wpc[w] = "record"
    /\ active' = [k \in DOMAIN active \cup {cur.target} |->
                    IF k = cur.target
                    THEN [args |-> agentArgs(cur.target), proc |-> cur.proc]
                    ELSE active[k]]
    /\ startPort' = startPort + 1
    /\ cur' = [cur EXCEPT !.recs = @ + 1]
    /\ wpc' = [wpc EXCEPT ![w] = "verdict"]
    /\ IF pc = "kill"
       THEN \/ killTodo' = killTodo /\ crashed' = crashed
            \/ killTodo' = killTodo \cup {cur.target} /\ crashed' = crashed
            \/ killTodo' = killTodo /\ crashed' = TRUE
       ELSE killTodo' = killTodo /\ crashed' = crashed
    /\ UNCHANGED <<started, queue, port, addresses, params, kernVars, pc, ret, fwq,
                   loopOn, npkts>>

\* line 227
handle_doReturn(w) ==
    /\ ~crashed /\ wpc[w] = "exempt"
    /\ \E e \in BOOLEAN :
         handle_iptables(doReturn(IPString(cur.dst), cur.dport), e)
    /\ wpc' = [wpc EXCEPT ![w] = "verdict"]
    /\ UNCHANGED <<modVars, params, procs, qlive, stopReq, nextQ, ctlVars, loopOn,
                   npkts, crashed>>

\* lines 231-233: the verdict is set and the callback returns to the loop
handle_verdict(w) ==
    /\ ~crashed /\ wpc[w] = "verdict"
    /\ cur' = [cur EXCEPT !.verdicts = Append(@, Verdict(cur.branch))]
    /\ wpc' = [wpc EXCEPT ![w] = "loop"]
    /\ UNCHANGED <<modVars, params, kernVars, ctlVars, loopOn, npkts, crashed>>

\* ---- the system ----------------------------------------------------------
Next ==
    \/ Start
    \/ Configure_destroyQueue
    \/ Configure_params
    \/ Configure_queue
    \/ configureFirewall_step
    \/ Start_SetRunning
    \/ Stop
    \/ Stop_StopLoop
    \/ Stop_range
    \/ Stop_kill
    \/ Stop_rangeDone
    \/ \E w \in Workers :
         \/ Done_handshake(w)
         \/ Worker_enterLoop(w)
         \/ Worker_loopReturns(w)
         \/ Worker_loopOnDestroyed(w)
         \/ Worker_deferred(w)
         \/ \E pkt \in Packets : handle_classify(w, pkt)
         \/ handle_spawn(w)
         \/ handle_doProxy(w)
         \/ handle_record(w)
         \/ handle_doReturn(w)
         \/ handle_verdict(w)

Spec == Init /\ [][Next]_vars

\* the same system with a user who first edits rdp.proxy.start
NextParams == Next \/ \E v \in StartParams : SetStartParam(v)

SpecParams == Init /\ [][NextParams]_vars

\* ---- properties -----------------------------------------------------------
InHandler(w) == wpc[w] \in {"spawn", "redirect", "record", "exempt", "verdict"}

\* the callback is at work on the packet recorded in cur
CallbackRunning == \E w \in Workers : InHandler(w)

\* the callback has returned from the packet recorded in cur
HandlerReturned ==
    /\ cur.branch \in {"new", "existing", "nontarget"}
    /\ \A w \in Workers : ~InHandler(w)

StopReturned  == pc = "idle" /\ ret = [op |-> "Stop", res |-> "ok"]
StartFailed(kinds) == pc = "idle" /\ ret.op = "Start" /\ ret.res \in kinds

\* C1: every packet that takes one of the three branches of the callback (new
\* target endpoint, already-intercepted target endpoint, non-target) gets
\* exactly one verdict by the time the callback returns, that verdict is DROP,
\* and no ACCEPT verdict is ever issued.
C1_ExactlyOneDrop ==
    /\ Len(cur.verdicts) <= 1
    /\ \A i \in 1..Len(cur.verdicts) : cur.verdicts[i] = "DROP"
    /\ HandlerReturned => cur.verdicts = <<"DROP">>

C1_Witness ==
    HandlerReturned /\ cur.branch = "existing" /\ cur.verdicts = <<"DROP">>

\* what the callback did for the packet in cur, beyond the verdict
NoSessionEffects ==
    /\ cur.spawns = 0 /\ cur.agents = {} /\ cur.recs = 0
    /\ startPort = cur.cursor0

RedirectFor(p) ==
    Rule("REDIRECT", IPString(p.dst), ToString(port), ToString(p.cursor0))

ExemptionFor(p) ==
    Rule("RETURN", IPString(p.dst), ToString(p.dport), "")

\* C2 as stated: the first packet to a target endpoint without a session
\* spawns exactly one agent and installs exactly one redirect rule; a later
\* packet to the same endpoint does nothing.
C2_ExactlyOneAgentAndRule ==
    /\ (HandlerReturned /\ cur.branch = "new") =>
          /\ Cardinality(cur.agents) = 1
          /\ cur.ins = <<RedirectFor(cur)>>
    /\ cur.branch = "existing" => NoSessionEffects /\ cur.cmds = <<>>

\* C2, amended: the first packet to a target endpoint without a session makes
\* exactly one spawn attempt, issues exactly one redirect command, records
\* exactly one session and advances the cursor by one, so it spawns at most
\* one agent and installs at most one redirect rule; a later packet to the
\* same endpoint spawns nothing, issues no redirect, records nothing and
\* leaves the cursor alone (it issues no command at all while the address is
\* still a target); no two agents were ever spawned for the same endpoint.
C2_Idempotent ==
    /\ cur.branch = "new" =>
          /\ cur.spawns <= 1 /\ Cardinality(cur.agents) <= cur.spawns
          /\ Len(cur.cmds) <= 1 /\ cur.recs <= 1
          /\ (cur.recs = 0) = (cur.target \notin DOMAIN active)
          /\ startPort = cur.cursor0 + cur.recs
          /\ cur.ins \in {<<>>, cur.cmds}
    /\ (CallbackRunning /\ cur.branch = "new" /\ cur.recs = 0) =>
          \A i \in 1..Len(cur.cmds) : cur.cmds[i] = RedirectFor(cur)
    /\ (HandlerReturned /\ cur.branch = "new") =>
          cur.spawns = 1 /\ Len(cur.cmds) = 1 /\ cur.recs = 1
    /\ cur.branch = "existing" =>
          cur.target \in DOMAIN active /\ cur.cmds = <<>> /\ cur.ins = <<>>
    /\ cur.branch \in {"existing", "nontarget"} =>
          /\ NoSessionEffects
          /\ \A i \in 1..Len(cur.cmds) : cur.cmds[i].j /= "REDIRECT"
    /\ \A p, q \in procs : p.args[3] = q.args[3] => p.args = q.args

C2_Witness ==
    /\ HandlerReturned /\ cur.branch = "existing"
    /\ \E p \in procs : p.args[3] = cur.target /\ p.alive
    /\ \E i \in 1..Len(fw.rules) :
         fw.rules[i].j = "REDIRECT" /\ fw.rules[i].d = IPString(cur.dst)

\* C3: once Stop has returned, the chain BCAPRDP is gone: not hooked into
\* PREROUTING, holding no rule, deleted.
C3_ChainGoneAfterStop ==
    StopReturned => ~fw.hook /\ fw.rules = <<>> /\ ~fw.chain

\* C4: once Stop has returned, no agent process this module spawned is still
\* running.
C4_NoAgentAfterStop ==
    StopReturned => \A p \in procs : ~p.alive

\* C5: the Nth session created listens on rdp.proxy.start + (N - 1); the
\* cursor moves by one per session created and by nothing else.
C5_PortsFromStartParam ==
    /\ (cur.branch = "new" /\ cur.recs = 1) =>
          /\ active[cur.target].args[2] =
                ToString(params.start + Cardinality(DOMAIN active) - 1)
          /\ startPort = cur.cursor0 + 1
    /\ cur.branch \in {"existing", "nontarget"} => startPort = cur.cursor0

\* C6: when Start has returned a configuration error, the module is stopped,
\* mod.queue is nil and the chain BCAPRDP does not exist.
C6_ConfigErrorLeavesNothing ==
    StartFailed(ConfigErrors) => ~started /\ queue = 0 /\ ~fw.chain

\* C7: when Start has returned a queue or firewall error, the module is
\* stopped, mod.queue is nil and neither the chain BCAPRDP nor its PREROUTING
\* hook is left.
C7_RollbackOnFailure ==
    StartFailed({"queue", "firewall"}) =>
        ~started /\ queue = 0 /\ ~fw.chain /\ ~fw.hook

\* the textual forms of the addresses of the TargetSet
TargetTexts == { IPString(addresses[i]) : i \in 1..Len(addresses) }

ProbeTexts == { "10.0.0.5", "10.0.0.9", "10.0.0.7", "10.0.0.50", "" }

\* C8: isTarget(ip) is true exactly for the textual forms of the addresses
\* resolved at the last configuration (mod.addresses is assigned by Configure
\* alone, so the function is probed where Configure has just assigned it),
\* and the callback classifies each packet's destination accordingly.
C8_IsTargetIsMembership ==
    /\ (pc = "queue" \/ addresses = <<>>) =>
          \A ip \in ProbeTexts : isTarget(ip) = (ip \in TargetTexts)
    /\ cur.branch \in {"new", "existing", "nontarget"} =>
          cur.isT = (cur.branch /= "nontarget")
    /\ CallbackRunning => cur.isT = (IPString(cur.dst) \in TargetTexts)

C8_Witness ==
    /\ addresses = <<IP4(9), IP16(5)>>
    /\ cur.dst = IP4(5) /\ cur.isT /\ cur.branch = "new"

\* a step of the control thread that is an invocation of Start
StartInvoked ==
    /\ pc = "idle"
    /\ \/ pc' = "configure"
       \/ ret'.op = "Start" /\ ret' /= ret

\* C9: Start on a running module returns the already-started error and
\* changes nothing: the queue handle, the firewall chain, the TargetSet, the
\* sessions, the port cursor, the agents and the worker in its receive loop
\* are as they were.
C9_StartWhileRunningRejected ==
    [][ (StartInvoked /\ started) =>
          /\ pc' = "idle"
          /\ ret' = [op |-> "Start", res |-> "ErrAlreadyStarted"]
          /\ UNCHANGED <<started, queue, port, startPort, active, addresses,
                         fw, procs, qlive, stopReq, nextQ, wpc, loopOn, cur>>
      ]_vars

C9_Witness ==
    /\ ret = [op |-> "Start", res |-> "ErrAlreadyStarted"]
    /\ started /\ queue /= 0 /\ queue \in qlive /\ fw.chain /\ fw.hook
    /\ \E w \in Workers : wpc[w] = "loop" /\ loopOn[w] = queue
    /\ DOMAIN active /= {}

\* C10 as stated: a packet to a non-target destination installs the exemption
\* rule for its (destination, port) and nothing else happens.
C10_ExemptionInstalled ==
    (HandlerReturned /\ cur.branch = "nontarget") =>
        /\ cur.ins = <<ExemptionFor(cur)>>
        /\ NoSessionEffects

\* C10, amended: a packet to a non-target destination issues exactly one
\* iptables command, the insertion of the exemption (RETURN) rule for its
\* (destination, port); the rule is in place when that command succeeds and
\* the chain is untouched when it fails; no agent is spawned, no session
\* recorded, no redirect issued and the port cursor stays.
C10_ExemptionOnly ==
    /\ cur.branch = "nontarget" =>
          /\ NoSessionEffects
          /\ ~cur.isT
          /\ Len(cur.cmds) <= 1
          /\ cur.ins \in {<<>>, cur.cmds}
    /\ (CallbackRunning /\ cur.branch = "nontarget") =>
          \A i \in 1..Len(cur.cmds) : cur.cmds[i] = ExemptionFor(cur)
    /\ (HandlerReturned /\ cur.branch = "nontarget") => Len(cur.cmds) = 1

C10_Witness ==
    /\ HandlerReturned /\ cur.branch = "nontarget" /\ cur.dport = 443
    /\ cur.ins = <<ExemptionFor(cur)>>
    /\ fw.chain /\ fw.rules /= <<>> /\ Head(fw.rules) = ExemptionFor(cur)

\* a rule of the chain that handles packet p in the kernel: a redirect or an
\* exemption for p's destination address and port
RuleMatches(r, p) ==
    /\ r.j \in {"REDIRECT", "RETURN"}
    /\ r.d = IPString(p.dst)
    /\ r.dport = ToString(p.dport)

\* such a rule is in the chain, ahead of every queue-divert rule
CoveredBeforeQueue(f, p) ==
    \E i \in 1..Len(f.rules) :
        /\ RuleMatches(f.rules[i], p)
        /\ \A j \in 1..Len(f.rules) : f.rules[j].j = "NFQUEUE" => i < j

\* the step that issues the verdict for the packet in cur
VerdictStep == Len(cur'.verdicts) > Len(cur.verdicts)

\* C11: at the moment the drop verdict is issued for a packet, the chain
\* holds a redirect or exemption rule for the packet's destination, placed
\* before the queue-divert rule, in every run.
C11_RuleInPlaceAtVerdict ==
    [][ VerdictStep => CoveredBeforeQueue(fw, cur) ]_vars

\* C12: once Stop has returned, mod.active holds no entry.
C12_SessionsGoneAfterStop ==
    StopReturned => DOMAIN active = {}

\* C13: when the spawn for a new target endpoint failed, no redirect command
\* is issued and no session is recorded for it, so every entry of mod.active
\* holds a started process.
C13_SessionOnlyIfSpawned ==
    /\ (cur.branch = "new" /\ cur.spawns = 1 /\ ~cur.proc) =>
          cur.cmds = <<>> /\ cur.recs = 0
    /\ \A k \in DOMAIN active : active[k].proc

\* a step of Stop's range loop that visits one entry of mod.active
StopKillStep ==
    /\ pc = "kill"
    /\ killTodo' /= killTodo /\ killTodo' \subseteq killTodo

\* C14, in the form a finite run refutes: no step of Stop's termination pass
\* ends the process, whatever entry it visits (a session whose agent never
\* started included), so the pass goes on to the remaining sessions and Stop
\* goes on to complete.
C14_StopSurvivesCleanup ==
    [][ StopKillStep => ~crashed' ]_vars

\* every per-connection rule is ahead of the queue-divert rule
QueueRuleLast ==
    \A i, j \in 1..Len(fw.rules) :
        (fw.rules[i].j = "NFQUEUE" /\ fw.rules[j].j /= "NFQUEUE") => j < i

\* the callback's doProxy / doReturn step
RedirectStep == \E w \in Workers : wpc[w] = "redirect" /\ wpc'[w] = "record"
ExemptStep   == \E w \in Workers : wpc[w] = "exempt" /\ wpc'[w] = "verdict"

\* C15 as stated: in every state of the chain every redirect rule precedes
\* every exemption rule.
C15_RedirectsBeforeExemptions ==
    \A i, j \in 1..Len(fw.rules) :
        (fw.rules[i].j = "REDIRECT" /\ fw.rules[j].j = "RETURN") => i < j

\* C15, amended: redirect inserts its rule at the head of the chain, ahead of
\* every exemption rule (and every other rule) already present; exempt inserts
\* at the head as well, so a later exemption goes ahead of the redirect rules
\* already present; every redirect and exemption rule precedes the
\* queue-divert rule.
C15_InsertedAtHead ==
    /\ []QueueRuleLast
    /\ [][ /\ (RedirectStep /\ fw' /= fw) =>
                /\ Head(fw'.rules).j = "REDIRECT"
                /\ Tail(fw'.rules) = fw.rules
           /\ (ExemptStep /\ fw' /= fw) =>
                /\ Head(fw'.rules).j = "RETURN"
                /\ Tail(fw'.rules) = fw.rules
         ]_vars

C15_Witness ==
    /\ Len(fw.rules) = 3
    /\ fw.rules[1].j = "REDIRECT" /\ fw.rules[2].j = "RETURN"
    /\ fw.rules[3].j = "NFQUEUE"

\* C16: at most one queue handle is live, and mod.queue is nil whenever the
\* module is stopped with no Start or Stop in progress.
C16_QueueNilWhenInactive ==
    /\ Cardinality(qlive) <= 1
    /\ (~started /\ pc = "idle") => queue = 0

\* C17: a packet that does not decode to IPv4/TCP does not end the process
\* and has no effect on agents, sessions or rules.
C17_UnparsedHandled ==
    cur.branch = "panic" =>
        ~crashed /\ cur.spawns = 0 /\ cur.recs = 0 /\ cur.cmds = <<>>

\* C18: a target endpoint whose redirect command failed is not recorded as
\* intercepted.
C18_FailedRedirectNotRecorded ==
    (cur.branch = "new" /\ Len(cur.cmds) = 1 /\ cur.ins = <<>>) =>
        cur.recs = 0 /\ cur.target \notin DOMAIN active

\* C19: the callback never inserts into mod.active while Stop's range over
\* the map has entries yet to visit.
C19_NoInsertDuringRange ==
    [][ active' /= active => ~(pc = "kill" /\ killTodo /= {}) ]_vars

\* the deferred destroyQueue of worker w (the worker of the run that created
\* handle w)
DeferredStep(w) == wpc[w] = "defer" /\ wpc'[w] = "finished"

\* C20: the deferred destroyQueue of a worker destroys or nils no handle but
\* that of its own run, and a worker enters the receive loop on the live
\* handle its own Start created.
C20_TeardownOwnHandleOnly ==
    [][ \A w \in Workers :
          /\ DeferredStep(w) => (queue' = queue \/ queue = w)
          /\ (wpc[w] = "start" /\ wpc'[w] = "loop") => (queue = w /\ w \in qlive)
      ]_vars

====
